---- MODULE Spec2Model ----
(***************************************************************************)
(* The physics puzzle game of src/main.rs (PhysicsApp) as a state machine. *)
(*                                                                         *)
(* Numbers.  The program computes in f32.  Here every f32 is a fixed-point *)
(* integer: lengths in 1/Sub pixel, velocities in 1/Sub pixel per second,  *)
(* unit vectors (normals, directions) scaled by Unit, masses scaled by     *)
(* MassScale, bounciness in 1/Pct, times in milliseconds.  A division      *)
(* rounds to the nearest representable value (Rnd), a square root rounds   *)
(* down (ISqrt).                                                           *)
(*                                                                         *)
(* Control.  eframe calls PhysicsApp::update once per frame.  pc is the    *)
(* position inside update: "frame" (top: clock and level progression),     *)
(* "panel" (side panel buttons), "input" (pointer handling on the canvas), *)
(* "physics" (the call of update_physics).                                 *)
(*                                                                         *)
(* Observers.  steps counts the calls of update_physics that simulated     *)
(* since the last launch or reset; clicked is the button clicked in the    *)
(* current frame and panel_state the game state its side panel matched;    *)
(* advanced tells whether the level progression at the top of the current  *)
(* frame loaded a level; contacts is the set of pairs <<i, j>> that the    *)
(* pair loop of the current frame's update_physics found overlapping.  The *)
(* program has none of the five.                                           *)
(*                                                                         *)
(* Window.  The canvas keeps the size PhysicsApp::default gives to bounds. *)
(***************************************************************************)
EXTENDS Integers, Sequences, FiniteSets, TLC

VARIABLES objects, walls, springs, level, game_state, placing_wall,
          max_walls, win_time, dt, pc, steps, clicked, panel_state, contacts,
          advanced

vars == <<objects, walls, springs, level, game_state, placing_wall,
          max_walls, win_time, dt, pc, steps, clicked, panel_state, contacts,
          advanced>>

(***************************************************************************)
(* Fixed-point representation of f32                                       *)
(***************************************************************************)
Sub == 10
Unit == 1000
MassScale == 10
Pct == 100
MsPerSec == 1000

\* a / b rounded to the nearest integer (b > 0)
Rnd(a, b) == (2 * a + b) \div (2 * b)

Abs(a) == IF a < 0 THEN 0 - a ELSE a

\* f32::signum on the values the program passes to it
Signum(a) == IF a < 0 THEN 0 - 1 ELSE 1

Min(a, b) == IF a < b THEN a ELSE b

RECURSIVE SqrtSearch(_, _, _)
SqrtSearch(n, lo, hi) ==
    IF hi - lo <= 1 THEN lo
    ELSE LET mid == (lo + hi) \div 2
         IN  IF mid * mid <= n THEN SqrtSearch(n, mid, hi)
                               ELSE SqrtSearch(n, lo, mid)

\* f32::sqrt, rounded down
ISqrt(n) == SqrtSearch(n, 0, 46341)

(***************************************************************************)
(* Vec2                                                                    *)
(***************************************************************************)
Vec2(x, y) == [x |-> x, y |-> y]

\* a point given in pixels
Px(x, y) == Vec2(x * Sub, y * Sub)

Length(v) == ISqrt(v.x * v.x + v.y * v.y)

\* Vec2::normalized: a vector of length Unit, or the vector itself when its
\* length is zero
Normalized(v) ==
    LET len == Length(v)
    IN  IF len > 0 THEN Vec2(Rnd(v.x * Unit, len), Rnd(v.y * Unit, len))
                   ELSE v

\* Vec2::dot of a vector with a Unit-scaled vector
Dot(v, u) == Rnd(v.x * u.x + v.y * u.y, Unit)

Add(a, b) == Vec2(a.x + b.x, a.y + b.y)

VSub(a, b) == Vec2(a.x - b.x, a.y - b.y)

\* a Unit-scaled vector times a scalar
Mul(u, s) == Vec2(Rnd(u.x * s, Unit), Rnd(u.y * s, Unit))

\* a vector times the ratio num / den
MulRatio(v, num, den) == Vec2(Rnd(v.x * num, den), Rnd(v.y * num, den))

(***************************************************************************)
(* Option<T>                                                               *)
(***************************************************************************)
None == << >>
Some(v) == << v >>
IsSome(o) == o # << >>
Unwrap(o) == o[1]

(***************************************************************************)
(* Records                                                                 *)
(***************************************************************************)
\* PhysicsObject; coordinates and radius in pixels, mass in 1/MassScale,
\* bounciness in 1/Pct
PhysicsObject(p, v, r, m, b, goal, player, fix, ip, iv) ==
    [pos |-> Px(p[1], p[2]), vel |-> Px(v[1], v[2]), acc |-> Vec2(0, 0),
     radius |-> r * Sub, mass |-> m, bounciness |-> b,
     is_goal |-> goal, is_player |-> player, fixed |-> fix,
     initial_pos |-> Px(ip[1], ip[2]), initial_vel |-> Px(iv[1], iv[2])]

Wall(s, e, user) == [start |-> s, end |-> e, is_user_placed |-> user]

\* Spring with anchor: None (a fixed anchor_pos); object_index counts from 0
Spring(idx, ap, rest, k) ==
    [object_index |-> idx, anchor |-> None, anchor_pos |-> ap,
     rest_length |-> rest * Sub, stiffness |-> k]

GameStates == {"Planning", "Simulating", "Won"}

\* PhysicsApp::default: gravity, and bounds as the canvas gives them
gravity == Px(0, 400)
bounds == Px(800, 600)

\* the constants of the boundary stage
boarder_start == 210 * Sub
top_margin == 15 * Sub

(***************************************************************************)
(* Level data                                                              *)
(***************************************************************************)
Level1Objects ==
    << PhysicsObject(<<220, 150>>, <<420, 380>>, 18, 10, 94, FALSE, TRUE, FALSE,
                     <<220, 150>>, <<420, 380>>),
       PhysicsObject(<<400, 300>>, <<0, 0>>, 65, 150, 10, FALSE, FALSE, TRUE,
                     <<400, 300>>, <<0, 0>>),
       PhysicsObject(<<600, 180>>, <<0, 0>>, 24, 13, 91, FALSE, FALSE, FALSE,
                     <<600, 180>>, <<0, 0>>),
       PhysicsObject(<<800, 480>>, <<0, 450>>, 30, 15, 100, TRUE, FALSE, FALSE,
                     <<800, 480>>, <<0, 450>>) >>

Level1Walls == << Wall(Px(500, 350), Px(700, 330), FALSE) >>

Level2Objects ==
    << PhysicsObject(<<100, 480>>, <<280, 0 - 520>>, 19, 10, 95, FALSE, TRUE, FALSE,
                     <<100, 480>>, <<280, 0 - 520>>),
       PhysicsObject(<<250, 300>>, <<0, 0>>, 55, 200, 5, FALSE, FALSE, TRUE,
                     <<250, 300>>, <<0, 0>>),
       PhysicsObject(<<550, 250>>, <<0, 0>>, 60, 200, 5, FALSE, FALSE, TRUE,
                     <<550, 250>>, <<0, 0>>),
       PhysicsObject(<<400, 250>>, <<0, 0>>, 26, 14, 92, FALSE, FALSE, FALSE,
                     <<400, 250>>, <<0, 0>>),
       PhysicsObject(<<650, 400>>, <<0, 0>>, 28, 15, 90, FALSE, FALSE, FALSE,
                     <<650, 400>>, <<0, 0>>),
       PhysicsObject(<<850, 520>>, <<0, 450>>, 32, 17, 83, TRUE, FALSE, FALSE,
                     <<850, 520>>, <<0, 0>>) >>

Level2Walls ==
    << Wall(Px(350, 450), Px(500, 430), FALSE),
       Wall(Px(760, 400), Px(760, 550), FALSE),
       Wall(Px(760, 150), Px(760, 300), FALSE) >>

Level3Objects ==
    << PhysicsObject(<<100, 500>>, <<440, 0 - 300>>, 19, 10, 96, FALSE, TRUE, FALSE,
                     <<100, 500>>, <<440, 0 - 300>>),
       PhysicsObject(<<450, 320>>, <<0 - 130, 0>>, 38, 22, 78, FALSE, FALSE, FALSE,
                     <<450, 320>>, <<0 - 130, 0>>),
       PhysicsObject(<<620, 300>>, <<0, 0>>, 41, 26, 78, FALSE, FALSE, FALSE,
                     <<620, 300>>, <<0, 0>>),
       PhysicsObject(<<700, 220>>, <<0, 0>>, 27, 16, 50, FALSE, FALSE, FALSE,
                     <<700, 200>>, <<0, 0>>),
       PhysicsObject(<<700, 430>>, <<0, 0>>, 32, 18, 84, TRUE, FALSE, FALSE,
                     <<700, 430>>, <<0, 0>>) >>

Level3Walls ==
    << Wall(Px(600, 400), Px(600, 700), FALSE),
       Wall(Px(660, 480), Px(760, 480), FALSE),
       Wall(Px(680, 250), Px(770, 250), FALSE) >>

Level3Springs ==
    << Spring(1, Px(450, 60), 300, 230),
       Spring(2, Px(620, 60), 210, 95) >>

Level4Objects ==
    << PhysicsObject(<<100, 300>>, <<500, 0 - 120>>, 18, 10, 97, FALSE, TRUE, FALSE,
                     <<100, 300>>, <<500, 0 - 120>>),
       PhysicsObject(<<280, 200>>, <<0, 0>>, 70, 250, 8, FALSE, FALSE, TRUE,
                     <<280, 200>>, <<0, 0>>),
       PhysicsObject(<<280, 420>>, <<0, 0>>, 65, 250, 8, FALSE, FALSE, TRUE,
                     <<280, 420>>, <<0, 0>>),
       PhysicsObject(<<500, 300>>, <<0, 0>>, 75, 250, 8, FALSE, FALSE, TRUE,
                     <<500, 300>>, <<0, 0>>),
       PhysicsObject(<<450, 150>>, <<100, 0>>, 35, 20, 90, FALSE, FALSE, FALSE,
                     <<400, 150>>, <<0, 0>>),
       PhysicsObject(<<580, 164>>, <<0, 0>>, 27, 15, 92, FALSE, FALSE, FALSE,
                     <<580, 164>>, <<0, 0>>),
       PhysicsObject(<<760, 520>>, <<0, 0>>, 34, 20, 82, TRUE, FALSE, FALSE,
                     <<760, 520>>, <<0, 0>>) >>

Level4Walls ==
    << Wall(Px(380, 320), Px(480, 280), FALSE),
       Wall(Px(730, 570), Px(730, 300), FALSE),
       Wall(Px(550, 190), Px(650, 190), FALSE) >>

Level4Springs == << Spring(4, Px(450, 50), 100, 110) >>

\* PhysicsApp::setup_level: the fields it assigns, as a record; a level
\* number without a scenario leaves the cleared collections empty and
\* max_walls as it was
setup_level(lv, old_max_walls) ==
    LET cleared == [objects |-> << >>, walls |-> << >>, springs |-> << >>,
                    game_state |-> "Planning", placing_wall |-> None,
                    win_time |-> None, max_walls |-> old_max_walls]
    IN  CASE lv = 1 -> [cleared EXCEPT !.objects = Level1Objects,
                                      !.walls = Level1Walls,
                                      !.max_walls = 2]
          [] lv = 2 -> [cleared EXCEPT !.objects = Level2Objects,
                                      !.walls = Level2Walls,
                                      !.max_walls = 3]
          [] lv = 3 -> [cleared EXCEPT !.objects = Level3Objects,
                                      !.walls = Level3Walls,
                                      !.springs = Level3Springs,
                                      !.max_walls = 3]
          [] lv = 4 -> [cleared EXCEPT !.objects = Level4Objects,
                                      !.walls = Level4Walls,
                                      !.springs = Level4Springs,
                                      !.max_walls = 2]
          [] OTHER -> cleared

(***************************************************************************)
(* update_physics, stage by stage                                          *)
(***************************************************************************)
\* Vec::get(i): indices count from 0
Get(seq, i) == IF i < Len(seq) THEN Some(seq[i + 1]) ELSE None

\* the closure of the filter_map over the springs: Some((index, force)) or
\* None
SpringForce(objs, spring) ==
    LET obj == Get(objs, spring.object_index)
        anchor_pos == IF IsSome(spring.anchor)
                      THEN LET a == Get(objs, Unwrap(spring.anchor))
                           IN  IF IsSome(a) THEN Some(Unwrap(a).pos) ELSE None
                      ELSE Some(spring.anchor_pos)
    IN  IF obj = None \/ anchor_pos = None THEN None
        ELSE LET to_anchor == VSub(Unwrap(anchor_pos), Unwrap(obj).pos)
                 distance == Length(to_anchor)
             IN  IF distance = 0 THEN None
                 ELSE LET direction == MulRatio(to_anchor, Unit, distance)
                          stretch == distance - spring.rest_length
                      IN  Some(<<spring.object_index,
                                 Mul(direction, stretch * spring.stiffness)>>)

RECURSIVE SpringForcesUntilMissing(_, _, _)
\* spring_forces collected only up to the first spring that yields none
SpringForcesUntilMissing(objs, sprs, k) ==
    IF k > Len(sprs) THEN << >>
    ELSE LET f == SpringForce(objs, sprs[k])
         IN  IF IsSome(f)
             THEN << Unwrap(f) >> \o SpringForcesUntilMissing(objs, sprs, k + 1)
             ELSE << >>

RECURSIVE SpringForces(_, _, _)
\* spring_forces: the forces of the springs from the k-th on, in order
SpringForces(objs, sprs, k) ==
    IF k > Len(sprs) THEN << >>
    ELSE LET f == SpringForce(objs, sprs[k])
         IN  (IF IsSome(f) THEN << Unwrap(f) >> ELSE << >>)
             \o SpringForces(objs, sprs, k + 1)

RECURSIVE ApplySpringForces(_, _, _)
\* the loop over spring_forces: acc += force * (1 / mass) on non-fixed bodies
ApplySpringForces(objs, forces, k) ==
    IF k > Len(forces) THEN objs
    ELSE LET idx == forces[k][1]
             force == forces[k][2]
             obj == objs[idx + 1]
             objs1 == IF idx < Len(objs) /\ ~obj.fixed
                      THEN [objs EXCEPT ![idx + 1].acc =
                               Add(obj.acc, MulRatio(force, MassScale, obj.mass))]
                      ELSE objs
         IN  ApplySpringForces(objs1, forces, k + 1)

\* "Update physics for all objects": semi-implicit Euler on one body
Integrate(obj, d) ==
    IF obj.fixed THEN obj
    ELSE LET acc1 == Add(obj.acc, gravity)
             vel1 == Add(obj.vel, MulRatio(acc1, d, MsPerSec))
         IN  [obj EXCEPT !.vel = vel1,
                         !.acc = Vec2(0, 0),
                         !.pos = Add(obj.pos, MulRatio(vel1, d, MsPerSec))]

\* "Boundary collisions" on one body: the horizontal clamp
BoundaryX(obj) ==
    IF obj.pos.x - obj.radius < boarder_start
    THEN [obj EXCEPT !.pos.x = obj.radius + boarder_start,
                     !.vel.x = Rnd((0 - obj.vel.x) * obj.bounciness, Pct)]
    ELSE IF obj.pos.x + obj.radius > bounds.x + boarder_start
    THEN [obj EXCEPT !.pos.x = bounds.x - obj.radius + boarder_start,
                     !.vel.x = Rnd((0 - obj.vel.x) * obj.bounciness, Pct)]
    ELSE obj

\* "Boundary collisions" on one body: the vertical clamp
BoundaryY(obj) ==
    IF obj.pos.y - obj.radius < top_margin
    THEN [obj EXCEPT !.pos.y = obj.radius,
                     !.vel.y = Rnd((0 - obj.vel.y) * obj.bounciness, Pct)]
    ELSE IF obj.pos.y + obj.radius > bounds.y
    THEN [obj EXCEPT !.pos.y = bounds.y - obj.radius,
                     !.vel.y = Rnd((0 - obj.vel.y) * obj.bounciness, Pct)]
    ELSE obj

Boundary(obj) == IF obj.fixed THEN obj ELSE BoundaryY(BoundaryX(obj))

\* 1 / mass, scaled by Unit
InvMass(m) == Rnd(MassScale * Unit, m)

\* dist < min_dist for the pair
Overlapping(obj1, obj2) ==
    Length(VSub(obj2.pos, obj1.pos)) < obj1.radius + obj2.radius

\* the goal check without the tests of is_player
GoalHitByPlayer(obj1, obj2) ==
    \/ obj1.is_goal /\ ~obj2.fixed
    \/ obj2.is_goal /\ ~obj1.fixed

\* the goal check that looks for the goal in the first body of the pair only
GoalHitFirst(obj1, obj2) == obj1.is_goal /\ (~obj2.is_player /\ ~obj2.fixed)

\* "Check for goal hit": the condition on an overlapping pair
GoalHit(obj1, obj2) ==
    \/ obj1.is_goal /\ (~obj2.is_player /\ ~obj2.fixed)
    \/ obj2.is_goal /\ (~obj1.is_player /\ ~obj1.fixed)

\* the positional correction without the tests of fixed
SeparateFixed(obj1, obj2) ==
    LET delta_pos == VSub(obj2.pos, obj1.pos)
        dist == Length(delta_pos)
        min_dist == obj1.radius + obj2.radius
        normal == Normalized(delta_pos)
        overlap == min_dist - dist
        separation == Mul(normal, Rnd(overlap, 2))
        total_mass == obj1.mass + obj2.mass
    IN  << [obj1 EXCEPT !.pos =
               VSub(obj1.pos, MulRatio(separation, obj2.mass, total_mass))],
           [obj2 EXCEPT !.pos =
               Add(obj2.pos, MulRatio(separation, obj1.mass, total_mass))] >>

\* the positional correction of an overlapping pair
Separate(obj1, obj2) ==
    LET delta_pos == VSub(obj2.pos, obj1.pos)
        dist == Length(delta_pos)
        min_dist == obj1.radius + obj2.radius
        normal == Normalized(delta_pos)
        overlap == min_dist - dist
        separation == Mul(normal, Rnd(overlap, 2))
        total_mass == obj1.mass + obj2.mass
    IN  << IF ~obj1.fixed
           THEN [obj1 EXCEPT !.pos =
                    VSub(obj1.pos, MulRatio(separation, obj2.mass, total_mass))]
           ELSE obj1,
           IF ~obj2.fixed
           THEN [obj2 EXCEPT !.pos =
                    Add(obj2.pos, MulRatio(separation, obj1.mass, total_mass))]
           ELSE obj2 >>

\* the impulse response without the division by the sum of the inverse masses
ImpulseNoMass(obj1, obj2, normal) ==
    LET rel_vel == VSub(obj2.vel, obj1.vel)
        vel_along_normal == Dot(rel_vel, normal)
        least_bounciness == Min(obj1.bounciness, obj2.bounciness)
        impulse_mag == Rnd((0 - (Pct + least_bounciness)) * vel_along_normal, Pct)
        impulse == Mul(normal, impulse_mag)
    IN  << IF ~obj1.fixed
           THEN [obj1 EXCEPT !.vel =
                    VSub(obj1.vel, MulRatio(impulse, InvMass(obj1.mass), Unit))]
           ELSE obj1,
           IF ~obj2.fixed
           THEN [obj2 EXCEPT !.vel =
                    Add(obj2.vel, MulRatio(impulse, InvMass(obj2.mass), Unit))]
           ELSE obj2 >>

\* the impulse response with the restitution in place of 1 + restitution
ImpulseInelastic(obj1, obj2, normal) ==
    LET rel_vel == VSub(obj2.vel, obj1.vel)
        vel_along_normal == Dot(rel_vel, normal)
        least_bounciness == Min(obj1.bounciness, obj2.bounciness)
        impulse_mag0 == Rnd((0 - least_bounciness) * vel_along_normal, Pct)
        impulse_mag == Rnd(impulse_mag0 * Unit,
                           InvMass(obj1.mass) + InvMass(obj2.mass))
        impulse == Mul(normal, impulse_mag)
    IN  << IF ~obj1.fixed
           THEN [obj1 EXCEPT !.vel =
                    VSub(obj1.vel, MulRatio(impulse, InvMass(obj1.mass), Unit))]
           ELSE obj1,
           IF ~obj2.fixed
           THEN [obj2 EXCEPT !.vel =
                    Add(obj2.vel, MulRatio(impulse, InvMass(obj2.mass), Unit))]
           ELSE obj2 >>

\* the impulse response that leaves a pair that is already separating alone
ImpulseSkipSeparating(obj1, obj2, normal) ==
    LET rel_vel == VSub(obj2.vel, obj1.vel)
        vel_along_normal == Dot(rel_vel, normal)
        least_bounciness == Min(obj1.bounciness, obj2.bounciness)
        impulse_mag0 == Rnd((0 - (Pct + least_bounciness)) * vel_along_normal, Pct)
        impulse_mag == Rnd(impulse_mag0 * Unit,
                           InvMass(obj1.mass) + InvMass(obj2.mass))
        impulse == Mul(normal, impulse_mag)
    IN  IF vel_along_normal > 0 THEN << obj1, obj2 >>
        ELSE
        << IF ~obj1.fixed
           THEN [obj1 EXCEPT !.vel =
                    VSub(obj1.vel, MulRatio(impulse, InvMass(obj1.mass), Unit))]
           ELSE obj1,
           IF ~obj2.fixed
           THEN [obj2 EXCEPT !.vel =
                    Add(obj2.vel, MulRatio(impulse, InvMass(obj2.mass), Unit))]
           ELSE obj2 >>

\* the impulse response of an overlapping pair; normal is the normal taken
\* before the positional correction
Impulse(obj1, obj2, normal) ==
    LET rel_vel == VSub(obj2.vel, obj1.vel)
        vel_along_normal == Dot(rel_vel, normal)
        least_bounciness == Min(obj1.bounciness, obj2.bounciness)
        impulse_mag0 == Rnd((0 - (Pct + least_bounciness)) * vel_along_normal, Pct)
        impulse_mag == Rnd(impulse_mag0 * Unit,
                           InvMass(obj1.mass) + InvMass(obj2.mass))
        impulse == Mul(normal, impulse_mag)
    IN  << IF ~obj1.fixed
           THEN [obj1 EXCEPT !.vel =
                    VSub(obj1.vel, MulRatio(impulse, InvMass(obj1.mass), Unit))]
           ELSE obj1,
           IF ~obj2.fixed
           THEN [obj2 EXCEPT !.vel =
                    Add(obj2.vel, MulRatio(impulse, InvMass(obj2.mass), Unit))]
           ELSE obj2 >>

\* the body of "if dist < min_dist" without the goal check
ResolvePair(obj1, obj2) ==
    LET normal == Normalized(VSub(obj2.pos, obj1.pos))
        sep == Separate(obj1, obj2)
    IN  Impulse(sep[1], sep[2], normal)

\* one iteration of the pair loop on st = [objects, game_state, win_time,
\* contacts]; i < j count from 1; a win is recorded at the time 0 since the win
PairStep(st, i, j) ==
    LET obj1 == st.objects[i]
        obj2 == st.objects[j]
    IN  IF ~Overlapping(obj1, obj2) THEN st
        ELSE LET won == GoalHit(obj1, obj2) /\ st.game_state # "Won"
                 res == ResolvePair(obj1, obj2)
             IN  [objects |-> [st.objects EXCEPT ![i] = res[1], ![j] = res[2]],
                  game_state |-> IF won THEN "Won" ELSE st.game_state,
                  win_time |-> IF won THEN Some(0) ELSE st.win_time,
                  contacts |-> st.contacts \cup {<<i, j>>}]

RECURSIVE ObjectCollisions(_, _, _)
\* "Object-to-object collisions": for i in 0..len, for j in i+1..len
ObjectCollisions(st, i, j) ==
    IF i > Len(st.objects) THEN st
    ELSE IF j > Len(st.objects) THEN ObjectCollisions(st, i + 1, i + 2)
    ELSE ObjectCollisions(PairStep(st, i, j), i, j + 1)

\* the wall response that always pushes along the wall's normal, whichever
\* side the body is on
WallCollideOneSide(obj, wall) ==
    LET wall_vec == VSub(wall.end, wall.start)
        wall_len == Length(wall_vec)
    IN  IF wall_len = 0 THEN obj
        ELSE
        LET wall_dir == MulRatio(wall_vec, Unit, wall_len)
            to_ball == VSub(obj.pos, wall.start)
            along_wall == Dot(to_ball, wall_dir)
            normal == Vec2(0 - wall_dir.y, wall_dir.x)
            dist == Dot(to_ball, normal)
            penetration == obj.radius - Abs(dist)
            vel_normal == Dot(obj.vel, normal)
        IN  IF along_wall >= 0 /\ along_wall <= wall_len /\ Abs(dist) <= obj.radius
            THEN [obj EXCEPT
                    !.pos = Add(obj.pos, Mul(normal, penetration)),
                    !.vel = IF vel_normal * dist < 0
                            THEN VSub(obj.vel,
                                      Mul(normal, Rnd(vel_normal * (Pct + obj.bounciness), Pct)))
                            ELSE obj.vel]
            ELSE obj

\* the body of the wall loop for one body and one wall
WallCollide(obj, wall) ==
    LET wall_vec == VSub(wall.end, wall.start)
        wall_len == Length(wall_vec)
    IN  IF wall_len = 0 THEN obj
        ELSE
        LET wall_dir == MulRatio(wall_vec, Unit, wall_len)
            to_ball == VSub(obj.pos, wall.start)
            along_wall == Dot(to_ball, wall_dir)
            normal == Vec2(0 - wall_dir.y, wall_dir.x)
            dist == Dot(to_ball, normal)
            penetration == obj.radius - Abs(dist)
            vel_normal == Dot(obj.vel, normal)
        IN  IF along_wall >= 0 /\ along_wall <= wall_len /\ Abs(dist) <= obj.radius
            THEN [obj EXCEPT
                    !.pos = Add(obj.pos, Mul(normal, penetration * Signum(dist))),
                    !.vel = IF vel_normal * dist < 0
                            THEN VSub(obj.vel,
                                      Mul(normal, Rnd(vel_normal * (Pct + obj.bounciness), Pct)))
                            ELSE obj.vel]
            ELSE obj

RECURSIVE WallCollisions(_, _, _)
\* "Wall collisions" on one body: the walls from the k-th on, in order
WallCollisions(obj, ws, k) ==
    IF obj.fixed \/ k > Len(ws) THEN obj
    ELSE WallCollisions(WallCollide(obj, ws[k]), ws, k + 1)

\* the pair loop's iteration without the test of "not already Won"
PairStepAgain(st, i, j) ==
    LET obj1 == st.objects[i]
        obj2 == st.objects[j]
    IN  IF ~Overlapping(obj1, obj2) THEN st
        ELSE LET won == GoalHit(obj1, obj2)
                 res == ResolvePair(obj1, obj2)
             IN  [objects |-> [st.objects EXCEPT ![i] = res[1], ![j] = res[2]],
                  game_state |-> IF won THEN "Won" ELSE st.game_state,
                  win_time |-> IF won THEN Some(0) ELSE st.win_time,
                  contacts |-> st.contacts \cup {<<i, j>>}]

RECURSIVE ObjectCollisionsAgain(_, _, _)
ObjectCollisionsAgain(st, i, j) ==
    IF i > Len(st.objects) THEN st
    ELSE IF j > Len(st.objects) THEN ObjectCollisionsAgain(st, i + 1, i + 2)
    ELSE ObjectCollisionsAgain(PairStepAgain(st, i, j), i, j + 1)

\* update_physics that goes on after a win: it returns early in Planning only
\* and its pair loop records every goal hit
update_physics_again(app, ws, sprs, d) ==
    IF app.game_state = "Planning" THEN app
    ELSE
    LET forces == SpringForces(app.objects, sprs, 1)
        sprung == ApplySpringForces(app.objects, forces, 1)
        moved == [k \in DOMAIN sprung |-> Boundary(Integrate(sprung[k], d))]
        st == ObjectCollisionsAgain([app EXCEPT !.objects = moved], 1, 2)
    IN  [st EXCEPT !.objects =
            [k \in DOMAIN st.objects |-> WallCollisions(st.objects[k], ws, 1)]]

\* update_physics that returns early after a win only
update_physics_planning(app, ws, sprs, d) ==
    IF app.game_state = "Won" THEN app
    ELSE
    LET forces == SpringForces(app.objects, sprs, 1)
        sprung == ApplySpringForces(app.objects, forces, 1)
        moved == [k \in DOMAIN sprung |-> Boundary(Integrate(sprung[k], d))]
        st == ObjectCollisions([app EXCEPT !.objects = moved], 1, 2)
    IN  [st EXCEPT !.objects =
            [k \in DOMAIN st.objects |-> WallCollisions(st.objects[k], ws, 1)]]

\* update_physics with the wall stage moved before the boundary stage
update_physics_walls_first(app, ws, sprs, d) ==
    IF app.game_state # "Simulating" THEN app
    ELSE
    LET forces == SpringForces(app.objects, sprs, 1)
        sprung == ApplySpringForces(app.objects, forces, 1)
        moved == [k \in DOMAIN sprung |->
                    Boundary(WallCollisions(Integrate(sprung[k], d), ws, 1))]
    IN  ObjectCollisions([app EXCEPT !.objects = moved], 1, 2)

\* PhysicsApp::update_physics on app = [objects, game_state, win_time,
\* contacts]
update_physics(app, ws, sprs, d) ==
    IF app.game_state # "Simulating" THEN app
    ELSE
    LET forces == SpringForces(app.objects, sprs, 1)
        sprung == ApplySpringForces(app.objects, forces, 1)
        moved == [k \in DOMAIN sprung |-> Boundary(Integrate(sprung[k], d))]
        st == ObjectCollisions([app EXCEPT !.objects = moved], 1, 2)
    IN  [st EXCEPT !.objects =
            [k \in DOMAIN st.objects |-> WallCollisions(st.objects[k], ws, 1)]]

(***************************************************************************)
(* The other methods of PhysicsApp                                         *)
(***************************************************************************)
\* PhysicsApp::count_user_walls
count_user_walls(ws) == Cardinality({k \in DOMAIN ws : ws[k].is_user_placed})

\* the loop body of reset_simulation without the assignment to vel
ResetObjectPos(obj) ==
    [obj EXCEPT !.pos = obj.initial_pos,
                !.acc = Vec2(0, 0)]

\* the body of the loop of reset_simulation
ResetObject(obj) ==
    [obj EXCEPT !.pos = obj.initial_pos,
                !.vel = obj.initial_vel,
                !.acc = Vec2(0, 0)]

\* "Clear User Walls": walls.retain(|w| !w.is_user_placed)
RetainLevelWalls(ws) == SelectSeq(ws, LAMBDA w : ~w.is_user_placed)

(***************************************************************************)
(* Bounds of the model and inputs of a frame                               *)
(***************************************************************************)
\* the longest simulation run (physics steps after a launch) that is followed
MaxSteps == 85

\* the time between two frames, in ms; dt is this time capped at DtCap
FrameMs == {40, 1000}

\* where the pointer can be, besides outside the window
MousePositions == {Px(200, 140), Px(870, 500)}

DtCap == 16
WinDelay == 2000

Buttons == {"none", "go back", "go forward", "Launch Ball", "Clear User Walls",
            "Reset & Retry", "Play Again", "Restart Level"}

(***************************************************************************)
(* The state machine                                                       *)
(***************************************************************************)
Init ==
    LET s == setup_level(1, 3)
    IN  /\ objects = s.objects
        /\ walls = s.walls
        /\ springs = s.springs
        /\ level = 1
        /\ game_state = s.game_state
        /\ placing_wall = s.placing_wall
        /\ max_walls = s.max_walls
        /\ win_time = s.win_time
        /\ dt = 0
        /\ pc = "frame"
        /\ steps = 0
        /\ clicked = "none"
        /\ panel_state = "none"
        /\ contacts = {}
        /\ advanced = FALSE

\* a level load that leaves win_time as it was
LoadLevelKeepingWinTime(lv) ==
    LET s == setup_level(lv, max_walls)
    IN  /\ level' = lv
        /\ objects' = s.objects
        /\ walls' = s.walls
        /\ springs' = s.springs
        /\ game_state' = s.game_state
        /\ placing_wall' = s.placing_wall
        /\ max_walls' = s.max_walls
        /\ win_time' = win_time
        /\ steps' = 0

\* self.level = lv; self.setup_level(lv)
LoadLevel(lv) ==
    LET s == setup_level(lv, max_walls)
    IN  /\ level' = lv
        /\ objects' = s.objects
        /\ walls' = s.walls
        /\ springs' = s.springs
        /\ game_state' = s.game_state
        /\ placing_wall' = s.placing_wall
        /\ max_walls' = s.max_walls
        /\ win_time' = s.win_time
        /\ steps' = 0

\* a reset that also removes the walls the user drew
reset_simulation_clearing_walls ==
    /\ objects' = [k \in DOMAIN objects |-> ResetObject(objects[k])]
    /\ game_state' = "Planning"
    /\ win_time' = None
    /\ steps' = 0
    /\ walls' = RetainLevelWalls(walls)
    /\ UNCHANGED <<springs, level, placing_wall, max_walls>>

\* PhysicsApp::reset_simulation
reset_simulation ==
    /\ objects' = [k \in DOMAIN objects |-> ResetObject(objects[k])]
    /\ game_state' = "Planning"
    /\ win_time' = None
    /\ steps' = 0
    /\ UNCHANGED <<walls, springs, level, placing_wall, max_walls>>

\* the level progression with the next level replaced by the current one
BeginFrameSameLevel(elapsed) ==
    /\ pc = "frame"
    /\ pc' = "panel"
    /\ dt' = Min(elapsed, DtCap)
    /\ contacts' = {}
    /\ UNCHANGED <<clicked, panel_state>>
    /\ LET since == IF IsSome(win_time)
                    THEN Some(Min(Unwrap(win_time) + elapsed, WinDelay + 1))
                    ELSE None
       IN  IF IsSome(since) /\ Unwrap(since) > WinDelay
           THEN /\ LoadLevel(level)
                /\ advanced' = TRUE
           ELSE /\ win_time' = since
                /\ advanced' = FALSE
                /\ UNCHANGED <<objects, walls, springs, level, game_state,
                               placing_wall, max_walls, steps>>

\* update, from its top to the side panel: the clock is read (win_time holds
\* the time since the win, which is all the program uses of it; times past
\* WinDelay are not told apart), dt is computed, and a win that has been
\* shown for more than WinDelay loads the next level
BeginFrame(elapsed) ==
    /\ pc = "frame"
    /\ pc' = "panel"
    /\ dt' = Min(elapsed, DtCap)
    /\ contacts' = {}
    /\ UNCHANGED <<clicked, panel_state>>
    /\ LET since == IF IsSome(win_time)
                    THEN Some(Min(Unwrap(win_time) + elapsed, WinDelay + 1))
                    ELSE None
       IN  IF IsSome(since) /\ Unwrap(since) > WinDelay
           THEN IF level < 5
                THEN /\ LoadLevel(level + 1)
                     /\ advanced' = TRUE
                ELSE /\ game_state' = "Won"
                     /\ win_time' = since
                     /\ advanced' = FALSE
                     /\ UNCHANGED <<objects, walls, springs, level,
                                    placing_wall, max_walls, steps>>
           ELSE /\ win_time' = since
                /\ advanced' = FALSE
                /\ UNCHANGED <<objects, walls, springs, level, game_state,
                               placing_wall, max_walls, steps>>

\* a side panel that shows "Launch Ball" in every state
ShownLaunch(click) ==
    \/ click \in {"none", "Restart Level", "Launch Ball"}
    \/ /\ game_state = "Planning"
       /\ click \in {"go back", "go forward", "Clear User Walls"}
    \/ game_state = "Simulating" /\ click = "Reset & Retry"
    \/ game_state = "Won" /\ ~(level < 5) /\ click = "Play Again"

\* a side panel that shows "Reset & Retry" after a win too
ShownReset(click) ==
    \/ click \in {"none", "Restart Level"}
    \/ /\ game_state = "Planning"
       /\ click \in {"go back", "go forward", "Launch Ball", "Clear User Walls"}
    \/ game_state \in {"Simulating", "Won"} /\ click = "Reset & Retry"
    \/ game_state = "Won" /\ ~(level < 5) /\ click = "Play Again"

\* the buttons the side panel shows in the current state
Shown(click) ==
    \/ click \in {"none", "Restart Level"}
    \/ /\ game_state = "Planning"
       /\ click \in {"go back", "go forward", "Launch Ball", "Clear User Walls"}
    \/ game_state = "Simulating" /\ click = "Reset & Retry"
    \/ game_state = "Won" /\ ~(level < 5) /\ click = "Play Again"

\* the side panel: at most one button is clicked in a frame.  A run of
\* bound steps is followed no further: the next click ends it.
SidePanelUpTo(click, bound) ==
    /\ pc = "panel"
    /\ Shown(click)
    /\ (game_state = "Simulating" /\ steps >= bound)
          => click \in {"Reset & Retry", "Restart Level"}
    /\ CASE click = "go back" ->
              IF level > 1 THEN LoadLevel(level - 1)
              ELSE UNCHANGED <<objects, walls, springs, level, game_state,
                               placing_wall, max_walls, win_time, steps>>
         [] click = "go forward" ->
              IF level < 4 THEN LoadLevel(level + 1)
              ELSE UNCHANGED <<objects, walls, springs, level, game_state,
                               placing_wall, max_walls, win_time, steps>>
         [] click = "Launch Ball" ->
              /\ game_state' = "Simulating"
              /\ UNCHANGED <<objects, walls, springs, level, placing_wall,
                             max_walls, win_time, steps>>
         [] click = "Clear User Walls" ->
              /\ walls' = RetainLevelWalls(walls)
              /\ UNCHANGED <<objects, springs, level, game_state, placing_wall,
                             max_walls, win_time, steps>>
         [] click = "Reset & Retry" -> reset_simulation
         [] click = "Play Again" -> LoadLevel(1)
         [] click = "Restart Level" -> LoadLevel(level)
         [] OTHER -> UNCHANGED <<objects, walls, springs, level, game_state,
                                 placing_wall, max_walls, win_time, steps>>
    /\ pc' = IF game_state' = "Planning" THEN "input" ELSE "physics"
    /\ clicked' = click
    /\ panel_state' = game_state
    /\ UNCHANGED <<dt, contacts, advanced>>

\* the side panel in runs of at most MaxSteps steps
SidePanel(click) == SidePanelUpTo(click, MaxSteps)

\* the pointer handling that adds the wall on release whatever its length
PointerInputAnyLength(hover, pressed, released) ==
    /\ pc = "input"
    /\ pc' = "physics"
    /\ IF game_state = "Planning" /\ IsSome(hover)
       THEN LET mouse_pos == Unwrap(hover)
                started == IF /\ pressed
                              /\ count_user_walls(walls) < max_walls
                              /\ mouse_pos.x > 210 * Sub
                           THEN Some(mouse_pos)
                           ELSE placing_wall
                drop == IsSome(started) /\ released
            IN  /\ walls' = IF drop
                            THEN Append(walls, Wall(Unwrap(started), mouse_pos, TRUE))
                            ELSE walls
                /\ placing_wall' = IF drop THEN None ELSE started
       ELSE UNCHANGED <<walls, placing_wall>>
    /\ UNCHANGED <<objects, springs, level, game_state, max_walls, win_time,
                   dt, steps, clicked, panel_state, contacts, advanced>>

\* the pointer handling that starts a wall whatever the number of user walls
PointerInputNoBudget(hover, pressed, released) ==
    /\ pc = "input"
    /\ pc' = "physics"
    /\ IF game_state = "Planning" /\ IsSome(hover)
       THEN LET mouse_pos == Unwrap(hover)
                started == IF /\ pressed
                              /\ mouse_pos.x > 210 * Sub
                           THEN Some(mouse_pos)
                           ELSE placing_wall
                drop == IsSome(started) /\ released
            IN  /\ walls' = IF /\ drop
                               /\ Length(VSub(mouse_pos, Unwrap(started))) > 20 * Sub
                            THEN Append(walls, Wall(Unwrap(started), mouse_pos, TRUE))
                            ELSE walls
                /\ placing_wall' = IF drop THEN None ELSE started
       ELSE UNCHANGED <<walls, placing_wall>>
    /\ UNCHANGED <<objects, springs, level, game_state, max_walls, win_time,
                   dt, steps, clicked, panel_state, contacts, advanced>>

\* "Handle mouse input for wall placement", which runs in Planning only:
\* hover is the pointer position (None outside the window), pressed and
\* released are the primary button's events of this frame
PointerInput(hover, pressed, released) ==
    /\ pc = "input"
    /\ pc' = "physics"
    /\ IF game_state = "Planning" /\ IsSome(hover)
       THEN LET mouse_pos == Unwrap(hover)
                started == IF /\ pressed
                              /\ count_user_walls(walls) < max_walls
                              /\ mouse_pos.x > 210 * Sub
                           THEN Some(mouse_pos)
                           ELSE placing_wall
                drop == IsSome(started) /\ released
            IN  /\ walls' = IF /\ drop
                               /\ Length(VSub(mouse_pos, Unwrap(started))) > 20 * Sub
                            THEN Append(walls, Wall(Unwrap(started), mouse_pos, TRUE))
                            ELSE walls
                /\ placing_wall' = IF drop THEN None ELSE started
       ELSE UNCHANGED <<walls, placing_wall>>
    /\ UNCHANGED <<objects, springs, level, game_state, max_walls, win_time,
                   dt, steps, clicked, panel_state, contacts, advanced>>

\* self.update_physics(dt), the last step of update
UpdatePhysics ==
    /\ pc = "physics"
    /\ pc' = "frame"
    /\ LET app == update_physics([objects |-> objects,
                                  game_state |-> game_state,
                                  win_time |-> win_time,
                                  contacts |-> {}], walls, springs, dt)
       IN  /\ objects' = app.objects
           /\ game_state' = app.game_state
           /\ win_time' = app.win_time
           /\ contacts' = app.contacts
    /\ steps' = IF game_state = "Simulating" THEN steps + 1 ELSE steps
    /\ clicked' = "none"
    /\ panel_state' = "none"
    /\ advanced' = FALSE
    /\ UNCHANGED <<walls, springs, level, placing_wall, max_walls, dt>>

Next ==
    \/ \E elapsed \in FrameMs : BeginFrame(elapsed)
    \/ \E click \in Buttons : SidePanel(click)
    \/ \E hover \in {None} \cup {Some(m) : m \in MousePositions},
          pressed \in BOOLEAN, released \in BOOLEAN :
          PointerInput(hover, pressed, released)
    \/ UpdatePhysics

Spec == Init /\ [][Next]_vars

\* the frames of a user who clicks nothing while a win is shown
NextAuto ==
    \/ \E elapsed \in FrameMs : BeginFrame(elapsed)
    \/ \E click \in Buttons :
          /\ game_state = "Won" => click = "none"
          /\ SidePanel(click)
    \/ \E hover \in {None} \cup {Some(m) : m \in MousePositions},
          pressed \in BOOLEAN, released \in BOOLEAN :
          PointerInput(hover, pressed, released)
    \/ UpdatePhysics

\* update moves on from each of its positions
Schedule ==
    \/ pc = "frame" /\ pc' = "panel"
    \/ pc = "panel" /\ pc' \in {"input", "physics"}
    \/ pc = "input" /\ pc' = "physics"
    \/ pc = "physics" /\ pc' = "frame"

\* update runs to its end and ends with ctx.request_repaint(), so the next
\* frame always comes.  A step of NextAuto that moves pc is a step of the
\* action at that position, and that action is enabled whenever pc is there:
\* the condition is weak fairness of each of the four actions.
SpecAuto == Init /\ [][NextAuto]_vars /\ WF_pc(Schedule)

(***************************************************************************)
(* The stages of update_physics as functions of their inputs                *)
(*                                                                         *)
(* SpecStages starts from scenes drawn from small sets and applies one of   *)
(* the pairwise stage, the wall stage or the whole of update_physics to it. *)
(* The bodies of a scene record their drawn position and velocity in        *)
(* initial_pos and initial_vel, which no stage writes.                      *)
(***************************************************************************)
\* a body of a scene: p and v in pixels, never the goal or the player
SceneBody(p, v, r, m, b, fix) ==
    PhysicsObject(p, v, r, m, b, FALSE, FALSE, fix, p, v)

\* the first body of a pair scene, and where the second lies from it: on
\* the same centre, overlapping head-on, overlapping off the line of motion,
\* overlapping above, and touching without overlap
PairCentre == <<400, 300>>
PairVelocities == {<<400, 0>>, <<300, 0 - 200>>, <<0 - 150, 0>>}
PairOffsets == {<<0, 0>>, <<30, 0>>, <<25, 25>>, <<0, 0 - 35>>, <<40, 0>>}
OtherVelocities == {<<0, 0>>, <<0 - 100, 50>>}
SceneMasses == {10, 150, 2500}
SceneBounciness == {100, 10}

PairScenes ==
    { << SceneBody(PairCentre, v1, 20, 10, b1, FALSE),
         SceneBody(<<PairCentre[1] + off[1], PairCentre[2] + off[2]>>,
                   IF fix2 THEN <<0, 0>> ELSE v2, 20, m2, b2, fix2) >> :
        v1 \in PairVelocities, b1 \in {100, 94}, off \in PairOffsets,
        v2 \in OtherVelocities, m2 \in SceneMasses, b2 \in SceneBounciness,
        fix2 \in BOOLEAN }

\* a body near one wall: the wall in both directions and slanted, the body
\* on either side of it, on it, off its ends and out of reach
SceneWalls ==
    { Wall(Px(300, 300), Px(500, 300), TRUE),
      Wall(Px(500, 300), Px(300, 300), TRUE),
      Wall(Px(300, 300), Px(500, 400), TRUE) }
WallBodyPositions ==
    { <<400, 290>>, <<400, 282>>, <<400, 310>>, <<400, 318>>, <<400, 300>>,
      <<400, 340>>, <<400, 362>>, <<280, 295>>, <<400, 270>> }
WallBodyVelocities == { <<50, 200>>, <<50, 0 - 200>>, <<120, 0>>, <<0 - 80, 300>> }

WallScenes ==
    { [objects |-> << SceneBody(p, v, 20, 10, b, FALSE) >>, walls |-> << w >>] :
        p \in WallBodyPositions, v \in WallBodyVelocities,
        b \in {94, 50}, w \in SceneWalls }

\* a spring that names no body: by its object_index or by its anchor
BadSprings ==
    { [Spring(7, Px(450, 50), 100, 110) EXCEPT !.object_index = idx] :
        idx \in {7, 9} }
    \cup { [Spring(5, Px(450, 50), 100, 110) EXCEPT !.anchor = Some(a)] :
             a \in {7, 12} }

\* a spring between two bodies of level 4, stretched beyond its rest length
PulledSpring == [Spring(5, Px(450, 50), 100, 110) EXCEPT !.anchor = Some(4)]

\* whole steps: two equal bodies that touch, the first moving at the second;
\* and the bodies of level 4 with the level's spring and a stretched spring
\* between two bodies, and a spring that names no body before, between or
\* after them
StepScenes ==
    { [objects |-> << SceneBody(<<x, y>>, <<400, 0>>, 20, 10, 100, FALSE),
                      SceneBody(<<x + 40, y>>, <<0, 0>>, 20, 10, 100, FALSE) >>,
       walls |-> << >>, springs |-> << >>] :
        x \in {400, 555}, y \in {200, 300} }
    \cup { [objects |-> Level4Objects, walls |-> Level4Walls, springs |-> sprs] :
             sprs \in {Level4Springs, Level4Springs \o <<PulledSpring>>}
                  \cup { <<bad>> \o Level4Springs \o <<PulledSpring>> :
                            bad \in BadSprings }
                  \cup { Level4Springs \o <<bad, PulledSpring>> :
                            bad \in BadSprings }
                  \cup { Level4Springs \o <<PulledSpring, bad>> :
                            bad \in BadSprings } }

\* the fields of PhysicsApp besides the scene
InitScene(objs, ws, sprs, at) ==
    /\ objects = objs
    /\ walls = ws
    /\ springs = sprs
    /\ level = 0
    /\ game_state = "Simulating"
    /\ placing_wall = None
    /\ max_walls = 3
    /\ win_time = None
    /\ dt = DtCap
    /\ pc = at
    /\ steps = 0
    /\ clicked = "none"
    /\ panel_state = "none"
    /\ contacts = {}
    /\ advanced = FALSE

\* an overlapping pair whose bodies are or are not a goal, the player, fixed
GoalScenes ==
    { << [SceneBody(PairCentre, <<400, 0>>, 20, 10, 94, FALSE)
             EXCEPT !.is_goal = goal1, !.is_player = player1],
         [SceneBody(<<PairCentre[1] + 30, PairCentre[2]>>, <<0, 0>>, 20, 15, 100, fix2)
             EXCEPT !.is_goal = goal2] >> :
        goal1 \in BOOLEAN, player1 \in BOOLEAN, goal2 \in BOOLEAN,
        fix2 \in BOOLEAN }

\* a body across or near each edge of the arena, or away from all of them
EdgePositions ==
    { <<x, y>> : x \in {215, 228, 600, 1000}, y \in {20, 33, 300, 590} }
EdgeVelocities == { <<0 - 100, 0 - 100>>, <<100, 100>>, <<60, 0>> }
EdgeScenes ==
    { << SceneBody(p, v, 20, 10, b, FALSE) >> :
        p \in EdgePositions, v \in EdgeVelocities, b \in {94, 50} }

InitStages ==
    \/ \E sc \in PairScenes \cup GoalScenes : InitScene(sc, << >>, << >>, "pairs")
    \/ \E sc \in EdgeScenes : InitScene(sc, << >>, << >>, "boundary")
    \/ \E sc \in WallScenes : InitScene(sc.objects, sc.walls, << >>, "walls")
    \/ \E sc \in StepScenes :
          InitScene(sc.objects, sc.walls, sc.springs, "physics")

\* "Object-to-object collisions" alone
ApplyPairs ==
    /\ pc = "pairs"
    /\ pc' = "paired"
    /\ LET st == ObjectCollisions([objects |-> objects,
                                   game_state |-> game_state,
                                   win_time |-> win_time,
                                   contacts |-> {}], 1, 2)
       IN  /\ objects' = st.objects
           /\ game_state' = st.game_state
           /\ win_time' = st.win_time
           /\ contacts' = st.contacts
    /\ UNCHANGED <<walls, springs, level, placing_wall, max_walls, dt, steps,
                   clicked, panel_state, advanced>>

\* "Wall collisions" alone
ApplyWalls ==
    /\ pc = "walls"
    /\ pc' = "walled"
    /\ objects' = [k \in DOMAIN objects |-> WallCollisions(objects[k], walls, 1)]
    /\ UNCHANGED <<walls, springs, level, game_state, placing_wall, max_walls,
                   win_time, dt, steps, clicked, panel_state, contacts,
                   advanced>>

\* "Boundary collisions" alone
ApplyBoundary ==
    /\ pc = "boundary"
    /\ pc' = "bounded"
    /\ objects' = [k \in DOMAIN objects |-> Boundary(objects[k])]
    /\ UNCHANGED <<walls, springs, level, game_state, placing_wall, max_walls,
                   win_time, dt, steps, clicked, panel_state, contacts,
                   advanced>>

NextStages == ApplyPairs \/ ApplyWalls \/ ApplyBoundary \/ UpdatePhysics

SpecStages == InitStages /\ [][NextStages]_vars

(***************************************************************************)
(* The last level.  SpecFinal starts in level 4 in Planning, as three       *)
(* clicks on "go forward" and one drag of the pointer leave it: with the    *)
(* user wall that sends a body into the goal.  Its runs are long enough for *)
(* that win; the pointer stays outside the window.                          *)
(***************************************************************************)
FinalSteps == 115

\* the wall drawn from (240,200) to (760,140)
FinalWall == Wall(Px(240, 200), Px(760, 140), TRUE)

InitFinal ==
    LET s == setup_level(4, 3)
    IN  /\ objects = s.objects
        /\ walls = Append(s.walls, FinalWall)
        /\ springs = s.springs
        /\ level = 4
        /\ game_state = s.game_state
        /\ placing_wall = s.placing_wall
        /\ max_walls = s.max_walls
        /\ win_time = s.win_time
        /\ dt = 0
        /\ pc = "frame"
        /\ steps = 0
        /\ clicked = "none"
        /\ panel_state = "none"
        /\ contacts = {}
        /\ advanced = FALSE

NextFinal ==
    \/ \E elapsed \in FrameMs : BeginFrame(elapsed)
    \/ \E click \in Buttons : SidePanelUpTo(click, FinalSteps)
    \/ PointerInput(None, FALSE, FALSE)
    \/ UpdatePhysics

SpecFinal == InitFinal /\ [][NextFinal]_vars

(***************************************************************************)
(* old.rs: the pairwise stage of the sandbox's update_physics. Its bodies    *)
(* have no fixed, goal or player fields; the model carries them unused.     *)
(***************************************************************************)
\* the body of "if dist < min_dist" in old.rs
SandboxResolvePair(obj1, obj2) ==
    LET delta_pos == VSub(obj2.pos, obj1.pos)
        dist == Length(delta_pos)
        min_dist == obj1.radius + obj2.radius
        normal == Normalized(delta_pos)
        overlap == min_dist - dist
        separation == Mul(normal, Rnd(overlap, 2))
        total_mass == obj1.mass + obj2.mass
        rel_vel == VSub(obj2.vel, obj1.vel)
        vel_along_normal == Dot(rel_vel, normal)
        least_bounciness == Min(obj1.bounciness, obj2.bounciness)
        impulse_mag0 == Rnd((0 - (Pct + least_bounciness)) * vel_along_normal, Pct)
        impulse_mag == Rnd(impulse_mag0 * Unit,
                           InvMass(obj1.mass) + InvMass(obj2.mass))
        impulse == Mul(normal, impulse_mag)
    IN  << [obj1 EXCEPT
              !.pos = VSub(obj1.pos, MulRatio(separation, obj2.mass, total_mass)),
              !.vel = VSub(obj1.vel, MulRatio(impulse, InvMass(obj1.mass), Unit))],
           [obj2 EXCEPT
              !.pos = Add(obj2.pos, MulRatio(separation, obj1.mass, total_mass)),
              !.vel = Add(obj2.vel, MulRatio(impulse, InvMass(obj2.mass), Unit))] >>

\* one iteration of the sandbox's pair loop; i < j count from 1
SandboxPairStep(objs, i, j) ==
    IF ~Overlapping(objs[i], objs[j]) THEN objs
    ELSE LET res == SandboxResolvePair(objs[i], objs[j])
         IN  [objs EXCEPT ![i] = res[1], ![j] = res[2]]

RECURSIVE SandboxObjectCollisions(_, _, _)
\* "object-to-object collision detection": for i in 0..len, for j in i+1..len
SandboxObjectCollisions(objs, i, j) ==
    IF i > Len(objs) THEN objs
    ELSE IF j > Len(objs) THEN SandboxObjectCollisions(objs, i + 1, i + 2)
    ELSE SandboxObjectCollisions(SandboxPairStep(objs, i, j), i, j + 1)

\* the drawn pairs without a fixed body
SandboxScenes == { sc \in PairScenes : ~sc[2].fixed }

InitSandbox == \E sc \in SandboxScenes : InitScene(sc, << >>, << >>, "sandbox")

\* the sandbox's pairwise stage alone
ApplySandboxPairs ==
    /\ pc = "sandbox"
    /\ pc' = "resolved"
    /\ objects' = SandboxObjectCollisions(objects, 1, 2)
    /\ UNCHANGED <<walls, springs, level, game_state, placing_wall, max_walls,
                   win_time, dt, steps, clicked, panel_state, contacts,
                   advanced>>

NextSandbox == ApplySandboxPairs

SpecSandbox == InitSandbox /\ [][NextSandbox]_vars

(***************************************************************************)
(* Properties                                                              *)
(***************************************************************************)
\* the pair c of contacts holds a goal body
GoalContact(c) == objects[c[1]].is_goal \/ objects[c[2]].is_goal

\* the body that touches the goal in a pair that holds a goal body
TouchedBy(c) == IF objects[c[1]].is_goal THEN objects[c[2]] ELSE objects[c[1]]

\* a body that is neither the player, nor fixed, nor the goal
Intermediate(obj) == ~obj.is_player /\ ~obj.fixed /\ ~obj.is_goal

\* the body lies in the arena shrunk by its radius
InArena(obj) ==
    /\ obj.pos.x >= boarder_start + obj.radius
    /\ obj.pos.x <= bounds.x + boarder_start - obj.radius
    /\ obj.pos.y >= obj.radius
    /\ obj.pos.y <= bounds.y - obj.radius

\* every body is at its recorded initial position and velocity
BodiesAtInitial(objs) ==
    \A k \in DOMAIN objs : /\ objs[k].pos = objs[k].initial_pos
                           /\ objs[k].vel = objs[k].initial_vel

\* C1: a simulation step in which every body found overlapping the goal is
\* the player or a fixed body leaves the state Simulating and win_time unset.
C1_PlayerOrFixedNeverWins ==
    [][(/\ pc = "physics"
        /\ game_state = "Simulating"
        /\ \A c \in contacts' :
              GoalContact(c) => (TouchedBy(c).is_player \/ TouchedBy(c).fixed))
       => (game_state' = "Simulating" /\ win_time' = None)]_vars

\* a step has ended in which the player overlapped the goal; still Simulating
C1_Witness ==
    /\ pc = "frame"
    /\ game_state = "Simulating"
    /\ win_time = None
    /\ \E c \in contacts : GoalContact(c) /\ TouchedBy(c).is_player

\* C2: a simulation step whose pair loop finds an intermediate body
\* overlapping the goal ends in Won with win_time set (to the time of the
\* step: nothing has elapsed since the win).
C2_IntermediateWins ==
    [][(/\ pc = "physics"
        /\ game_state = "Simulating"
        /\ \E c \in contacts' : GoalContact(c) /\ Intermediate(TouchedBy(c)))
       => (game_state' = "Won" /\ win_time' = Some(0))]_vars

\* the step that found an intermediate body on the goal has just ended
C2_Witness ==
    /\ pc = "frame"
    /\ game_state = "Won"
    /\ win_time = Some(0)
    /\ \E c \in contacts : GoalContact(c) /\ Intermediate(TouchedBy(c))

C4_FixedBodiesStay ==
    LET s == setup_level(level, max_walls)
    IN  /\ Len(objects) = Len(s.objects)
        /\ \A k \in DOMAIN objects :
              objects[k].fixed => /\ objects[k].pos = s.objects[k].pos
                                  /\ objects[k].vel = s.objects[k].vel

\* a step has ended in which a body overlapped a fixed body
C4_Witness ==
    /\ pc = "frame"
    /\ steps > 0
    /\ \E c \in contacts : objects[c[1]].fixed \/ objects[c[2]].fixed

\* C5: at the end of every update_physics step every non-fixed body lies in
\* the arena shrunk by its radius.
C5_BoundaryContainment ==
    (pc = "frame" /\ steps > 0)
       => \A k \in DOMAIN objects : ~objects[k].fixed => InArena(objects[k])

\* C6: right after reset_simulation (the click on Reset & Retry) the state is
\* Planning, win_time is unset, every body is at its initial_pos with its
\* initial_vel and no acceleration, and the loop of a second call would
\* change no body.
C6_ResetRestores ==
    (pc = "input" /\ clicked = "Reset & Retry")
       => /\ game_state = "Planning"
          /\ win_time = None
          /\ BodiesAtInitial(objects)
          /\ \A k \in DOMAIN objects : /\ objects[k].acc = Vec2(0, 0)
                                       /\ ResetObject(objects[k]) = objects[k]

\* Reset & Retry has just been handled in a level whose bodies are not set up
\* where their initial values put them
C6_Witness ==
    /\ pc = "input"
    /\ clicked = "Reset & Retry"
    /\ objects # setup_level(level, max_walls).objects
    /\ count_user_walls(walls) > 0

\* C7 as stated: a reset clicked in Simulating (Reset & Retry) or in Won (any
\* button that leaves Won) ends in Planning with every body at its recorded
\* initial position and velocity and with the walls as they were.
C7_ResetInSimulatingAndWon ==
    [][(/\ pc = "panel"
        /\ \/ game_state = "Simulating" /\ clicked' = "Reset & Retry"
           \/ game_state = "Won" /\ clicked' # "none")
       => /\ game_state' = "Planning"
          /\ BodiesAtInitial(objects')
          /\ walls' = walls]_vars

\* C7 amended: Reset & Retry is shown in Simulating only and ends in Planning
\* with every body at its recorded initial position and velocity and the
\* walls as they were; the reset that Won (like every state) accepts is
\* Restart Level, and it ends in Planning with the level as setup_level
\* builds it: the bodies at their setup values, the user's walls gone,
\* win_time unset.
C7_ResetAmended ==
    [][pc = "panel"
       => /\ clicked' = "Reset & Retry"
             => /\ game_state = "Simulating"
                /\ game_state' = "Planning"
                /\ BodiesAtInitial(objects')
                /\ walls' = walls
          /\ clicked' = "Restart Level"
             => LET s == setup_level(level, max_walls)
                IN  /\ game_state' = "Planning"
                    /\ level' = level
                    /\ objects' = s.objects
                    /\ walls' = s.walls
                    /\ count_user_walls(walls') = 0
                    /\ win_time' = None
          /\ (game_state = "Won" /\ game_state' # "Won")
             => clicked' \in {"Restart Level", "Play Again"}]_vars

\* Restart Level has just been handled in Won, and it left a body away from
\* its recorded initial values
C7_Witness ==
    /\ pc = "input"
    /\ panel_state = "Won"
    /\ clicked = "Restart Level"
    /\ ~BodiesAtInitial(objects)

C9_LaunchOnlyFromPlanning ==
    /\ [](Shown("Launch Ball") => game_state = "Planning")
    /\ [][(game_state # "Simulating" /\ game_state' = "Simulating")
          => /\ game_state = "Planning"
             /\ pc = "panel"
             /\ clicked' = "Launch Ball"]_vars

\* the launch has just been clicked in Planning
C9_Witness ==
    /\ pc = "physics"
    /\ panel_state = "Planning"
    /\ clicked = "Launch Ball"
    /\ game_state = "Simulating"

\* C10: the call of update_physics in Planning or Won changes no body (pos,
\* vel and acc are fields of the records of objects), nor game_state, nor
\* win_time.
C10_PhysicsOnlyWhenSimulating ==
    [][(pc = "physics" /\ game_state \in {"Planning", "Won"})
       => /\ objects' = objects
          /\ game_state' = game_state
          /\ win_time' = win_time]_vars

\* update_physics has been called in every frame of a win shown for WinDelay
C10_Witness ==
    /\ pc = "frame"
    /\ game_state = "Won"
    /\ win_time = Some(WinDelay)

\* the five stages of a step, each run over all bodies before the next
StagesInOrder(objs, ws, sprs, d) ==
    LET s1 == ApplySpringForces(objs, SpringForces(objs, sprs, 1), 1)
        s2 == [k \in DOMAIN s1 |-> Integrate(s1[k], d)]
        s3 == [k \in DOMAIN s2 |-> Boundary(s2[k])]
        s4 == ObjectCollisions([objects |-> s3, game_state |-> "Simulating",
                                win_time |-> None, contacts |-> {}], 1, 2).objects
    IN  [k \in DOMAIN s4 |-> WallCollisions(s4[k], ws, 1)]

\* C11: a simulation step leaves the bodies as the stages spring forces,
\* integration, boundary collisions, pairwise collisions, wall collisions
\* leave them when each runs over all bodies in this order, the wall stage
\* writing the positions last.
C11_StageOrder ==
    [][(pc = "physics" /\ game_state = "Simulating")
       => objects' = StagesInOrder(objects, walls, springs, dt)]_vars

\* a step without overlapping pairs has ended with a body outside the arena:
\* the wall stage moved it after the boundary stage had clamped it
C11_Witness ==
    /\ pc = "frame"
    /\ game_state = "Simulating"
    /\ steps > 0
    /\ contacts = {}
    /\ \E k \in DOMAIN objects : ~objects[k].fixed /\ ~InArena(objects[k])

\* two bodies of radius 20, mass 1 and restitution 1 on a horizontal line,
\* the right edge of the first on the left edge of the second, the first
\* moving at 400 along the line, the second at rest
TouchingPair(objs) ==
    /\ Len(objs) = 2
    /\ \A k \in 1..2 : /\ objs[k].radius = 20 * Sub
                         /\ objs[k].mass = MassScale
                         /\ objs[k].bounciness = Pct
                         /\ ~objs[k].fixed
    /\ objs[2].pos = Add(objs[1].pos, Px(40, 0))
    /\ objs[1].vel = Px(400, 0)
    /\ objs[2].vel = Px(0, 0)

\* C12: one step of update_physics on two equal bodies that touch, the first
\* moving at 400 at the second, leaves the first with horizontal velocity 0
\* and the second with horizontal velocity 400 (the gravity of the step acts
\* on both alike and on the vertical velocity only).
C12_EqualMassTransfer ==
    [][(pc = "physics" /\ TouchingPair(objects))
       => /\ objects'[1].vel.x = 0
          /\ objects'[2].vel.x = 400 * Sub]_vars

\* the step on the touching pair has ended; it found the pair overlapping
C12_Witness ==
    /\ pc = "frame"
    /\ Len(objects) = 2
    /\ contacts = {<<1, 2>>}
    /\ objects[1].initial_vel = Px(400, 0)
    /\ objects[1].vel.x = 0
    /\ objects[2].vel.x = 400 * Sub

\* twice the kinetic energy of a body of unit mass moving at v
SpeedSquared(v) == v.x * v.x + v.y * v.y

\* a and b differ by at most one part in 200 of ref, and a tenth of a unit
Near(a, b, ref) == Abs(a - b) <= ref \div 200 + Sub \div 10

\* two non-fixed bodies of equal mass and restitution 1 that overlap
ElasticEqualPair(objs) ==
    /\ Len(objs) = 2
    /\ ~objs[1].fixed /\ ~objs[2].fixed
    /\ objs[1].mass = objs[2].mass
    /\ objs[1].bounciness = Pct /\ objs[2].bounciness = Pct
    /\ Overlapping(objs[1], objs[2])

\* C13 as stated: the pairwise stage on two overlapping non-fixed bodies of
\* equal mass and restitution 1 leaves the two speeds as they were, be it
\* exchanged between the bodies.
C13_SpeedsPreserved ==
    [][(pc = "pairs" /\ ElasticEqualPair(objects))
       => LET before1 == Length(objects[1].vel)
              before2 == Length(objects[2].vel)
              after1 == Length(objects'[1].vel)
              after2 == Length(objects'[2].vel)
              ref == before1 + before2
          IN  \/ Near(after1, before1, ref) /\ Near(after2, before2, ref)
              \/ Near(after1, before2, ref) /\ Near(after2, before1, ref)]_vars

\* C13 amended: the pairwise stage on two overlapping non-fixed bodies of
\* equal mass and restitution 1 leaves the sum of the squares of the two
\* speeds (the kinetic energy of the pair) as it was, within rounding, head-on
\* or grazing; the speed of each body may change.
C13_EnergyPreserved ==
    [][(pc = "pairs" /\ ElasticEqualPair(objects))
       => LET before == SpeedSquared(objects[1].vel) + SpeedSquared(objects[2].vel)
              after == SpeedSquared(objects'[1].vel) + SpeedSquared(objects'[2].vel)
          IN  Near(after, before, before)]_vars

\* a grazing contact of two equal elastic bodies has been resolved, and the
\* body that was at rest moves
C13_Witness ==
    /\ pc = "paired"
    /\ contacts = {<<1, 2>>}
    /\ objects[1].mass = objects[2].mass
    /\ objects[1].bounciness = Pct /\ objects[2].bounciness = Pct
    /\ ~objects[2].fixed
    /\ objects[2].initial_pos = Add(objects[1].initial_pos, Px(25, 25))
    /\ objects[2].initial_vel = Px(0, 0)
    /\ objects[2].vel # Px(0, 0)

\* the unit vectors along and across a wall, the wall's length, and the
\* coordinates of a point and of a velocity in them
WallDir(wall) ==
    MulRatio(VSub(wall.end, wall.start), Unit, Length(VSub(wall.end, wall.start)))
WallNormal(wall) == Vec2(0 - WallDir(wall).y, WallDir(wall).x)
AlongWall(p, wall) == Dot(VSub(p, wall.start), WallDir(wall))
WallDist(p, wall) == Dot(VSub(p, wall.start), WallNormal(wall))

\* the body projects onto the wall, is within its radius of it, off the
\* wall's line, and moves towards it
HitsWall(obj, wall) ==
    /\ ~obj.fixed
    /\ AlongWall(obj.pos, wall) >= 0
    /\ AlongWall(obj.pos, wall) <= Length(VSub(wall.end, wall.start))
    /\ WallDist(obj.pos, wall) # 0
    /\ Abs(WallDist(obj.pos, wall)) <= obj.radius
    /\ Dot(obj.vel, WallNormal(wall)) * WallDist(obj.pos, wall) < 0

\* C14: the wall stage on a body that projects onto the wall, is within its
\* radius of it and moves towards it leaves the body at the distance radius
\* from the wall (within rounding) on the side it was on, and its velocity
\* across the wall at minus its restitution times what it was.
C14_WallContainment ==
    [][(pc = "walls" /\ HitsWall(objects[1], walls[1]))
       => LET obj == objects[1]
              after == objects'[1]
              wall == walls[1]
              vel_normal == Dot(obj.vel, WallNormal(wall))
          IN  /\ Signum(WallDist(after.pos, wall)) = Signum(WallDist(obj.pos, wall))
              /\ Abs(Abs(WallDist(after.pos, wall)) - obj.radius) <= 2
              /\ Abs(Dot(after.vel, WallNormal(wall))
                        + Rnd(vel_normal * obj.bounciness, Pct)) <= Sub]_vars

\* the wall stage has pushed back and deflected a body that was below the
\* wall's line (on the side its normal points to) and one that was above
C14_Witness ==
    /\ pc = "walled"
    /\ objects[1].pos # objects[1].initial_pos
    /\ objects[1].vel # objects[1].initial_vel
    /\ WallDist(objects[1].initial_pos, walls[1]) < 0
    /\ Abs(WallDist(objects[1].initial_pos, walls[1])) < objects[1].radius

\* the spring's object_index and its anchor index, if any, are indices of
\* the body collection
NamesBodies(objs, spring) ==
    /\ spring.object_index < Len(objs)
    /\ IsSome(spring.anchor) => Unwrap(spring.anchor) < Len(objs)

\* C15: a step with springs that name no body ends as the same step without
\* those springs: they add no force, and the other springs and the later
\* stages act as they do without them.
C15_MissingBodySpringIgnored ==
    [][pc = "physics"
       => LET app == [objects |-> objects, game_state |-> game_state,
                      win_time |-> win_time, contacts |-> {}]
              named == SelectSeq(springs, LAMBDA sp : NamesBodies(objects, sp))
              without == update_physics(app, walls, named, dt)
          IN  /\ objects' = without.objects
              /\ game_state' = without.game_state
              /\ win_time' = without.win_time
              /\ pc' = "frame"]_vars

\* a step has run with a spring that names no body ahead of one that pulls
\* a body at rest to the left: that body has gained velocity to the left
C15_Witness ==
    /\ pc = "frame"
    /\ steps = 1
    /\ \E k \in DOMAIN springs :
          /\ ~NamesBodies(objects, springs[k])
          /\ \E j \in DOMAIN springs :
                /\ j > k
                /\ NamesBodies(objects, springs[j])
                /\ objects[springs[j].object_index + 1].initial_vel = Vec2(0, 0)
                /\ objects[springs[j].object_index + 1].vel.x < 0

\* C16: every wall in the collection has distinct endpoints, as has every
\* wall of the four levels, and a wall the user adds is longer than 20 px,
\* so the wall stage never divides by a zero wall length.
C16_NoZeroLengthWall ==
    /\ [](\A k \in DOMAIN walls :
            /\ walls[k].start # walls[k].end
            /\ Length(VSub(walls[k].end, walls[k].start)) > 0)
    /\ [](\A lv \in 1..4 : \A k \in DOMAIN setup_level(lv, max_walls).walls :
            setup_level(lv, max_walls).walls[k].start
              # setup_level(lv, max_walls).walls[k].end)
    /\ [][Len(walls') > Len(walls) /\ pc = "input"
          => /\ walls'[Len(walls')].is_user_placed
             /\ Length(VSub(walls'[Len(walls')].end,
                             walls'[Len(walls')].start)) > 20 * Sub]_vars

\* the wall stage has run over level walls and a wall the user drew
C16_Witness ==
    /\ pc = "frame"
    /\ steps > 0
    /\ game_state = "Simulating"
    /\ count_user_walls(walls) > 0
    /\ count_user_walls(walls) < Len(walls)

\* C17: the number of user walls never exceeds max_walls, and it grows
\* only in the pointer handling of a frame whose state is Planning.
C17_WallBudget ==
    /\ [](count_user_walls(walls) <= max_walls)
    /\ [][count_user_walls(walls') > count_user_walls(walls)
          => /\ game_state = "Planning"
             /\ pc = "input"
             /\ count_user_walls(walls') = count_user_walls(walls) + 1]_vars

\* the budget is used up, and a press in Planning has started no further
\* wall
C17_Witness ==
    /\ pc = "physics"
    /\ game_state = "Planning"
    /\ max_walls > 0
    /\ count_user_walls(walls) = max_walls
    /\ placing_wall = None

\* C18: `Reset & Retry`, which calls reset_simulation, leaves walls and
\* springs as they were, user walls included and in the same order, and
\* changes nothing but the bodies' pos, vel and acc, game_state and win_time.
C18_ResetFrame ==
    [][(pc = "panel" /\ clicked' = "Reset & Retry")
       => /\ walls' = walls
          /\ springs' = springs
          /\ level' = level
          /\ max_walls' = max_walls
          /\ placing_wall' = placing_wall
          /\ dt' = dt
          /\ game_state' = "Planning"
          /\ win_time' = None
          /\ DOMAIN objects' = DOMAIN objects
          /\ \A k \in DOMAIN objects :
                objects'[k] = [objects[k] EXCEPT !.pos = objects'[k].pos,
                                                 !.vel = objects'[k].vel,
                                                 !.acc = objects'[k].acc]]_vars

\* a reset has just run after steps that moved bodies, in a level with
\* springs, level walls and a wall the user drew
C18_Witness ==
    /\ pc = "input"
    /\ clicked = "Reset & Retry"
    /\ panel_state = "Simulating"
    /\ springs # << >>
    /\ count_user_walls(walls) > 0
    /\ count_user_walls(walls) < Len(walls)

\* a non-fixed first body overlaps a fixed second body, centres apart
HitsFixed(objs) ==
    /\ Len(objs) = 2
    /\ ~objs[1].fixed
    /\ objs[2].fixed
    /\ objs[1].pos # objs[2].pos
    /\ Overlapping(objs[1], objs[2])

\* C19: the pairwise stage on a non-fixed body that overlaps a fixed one
\* leaves the non-fixed body's velocity along the normal at minus the
\* smaller restitution times what it was (within 1 % and 1 px/s), whatever
\* the fixed body's mass.
C19_FixedActsAsInfiniteMass ==
    [][(pc = "pairs" /\ HitsFixed(objects))
       => LET normal == Normalized(VSub(objects[2].pos, objects[1].pos))
              before == Dot(objects[1].vel, normal)
              after == Dot(objects'[1].vel, normal)
              e == Min(objects[1].bounciness, objects[2].bounciness)
          IN  Abs(after + Rnd(e * before, Pct)) <= Abs(before) \div 100 + Sub]_vars

\* C20: the pairwise stage on two bodies whose centres coincide, the first
\* of them not fixed, displaces a body: the centres differ afterwards.
C20_CoincidentCentresSeparated ==
    [][(/\ pc = "pairs"
        /\ Len(objects) = 2
        /\ objects[1].pos = objects[2].pos
        /\ ~objects[1].fixed)
       => /\ objects'[1].pos # objects'[2].pos
          /\ objects'[1].pos # objects[1].pos \/ objects'[2].pos # objects[2].pos]_vars

\* the velocity of the second body relative to the first along the line
\* from the first centre to the second, as it was before the stage
RelativeNormalVelocity(objs, before) ==
    Dot(VSub(objs[2].vel, objs[1].vel),
        Normalized(VSub(before[2].pos, before[1].pos)))

\* two overlapping bodies with distinct centres
OverlappingPair(objs) ==
    /\ Len(objs) = 2
    /\ objs[1].pos # objs[2].pos
    /\ Overlapping(objs[1], objs[2])

\* the relative normal velocity after the stage is minus the smaller
\* restitution times the one before, within 1 % and 1 px/s
Restituted(before, after) ==
    LET e == Min(before[1].bounciness, before[2].bounciness)
        vn == RelativeNormalVelocity(before, before)
    IN  Abs(RelativeNormalVelocity(after, before) + Rnd(e * vn, Pct))
           <= Abs(vn) \div 100 + Sub

C22_SandboxSkipsSeparating ==
    [][(/\ pc = "sandbox"
        /\ OverlappingPair(objects)
        /\ RelativeNormalVelocity(objects, objects) > 0)
       => /\ objects'[1].vel = objects[1].vel
          /\ objects'[2].vel = objects[2].vel]_vars

C24_WinTimeIffWon == IsSome(win_time) <=> game_state = "Won"

\* a level has been loaded by the automatic advance after a win: the state
\* is Planning again and win_time is unset
C24_Witness ==
    /\ advanced
    /\ pc = "panel"
    /\ level > 1
    /\ game_state = "Planning"
    /\ win_time = None

\* C25: in Planning, where no body moves, every body of a level 1..4 is at
\* its initial_pos with its initial_vel: setup_level recorded as initial
\* values the ones it gave the body, so that a reset returns to the state
\* right after the level's setup.
C25_SetupRecordsInitial ==
    (game_state = "Planning" /\ level \in 1..4) => BodiesAtInitial(objects)

\* C26: the level number is one of the four scenarios, and the bodies hold
\* exactly one player and exactly one goal.
C26_DefinedLevelLoaded ==
    /\ level \in 1..4
    /\ Cardinality({k \in DOMAIN objects : objects[k].is_player}) = 1
    /\ Cardinality({k \in DOMAIN objects : objects[k].is_goal}) = 1

\* the state in which the side panel shows "All levels complete!" and the
\* button "Play Again"
AllLevelsComplete == game_state = "Won" /\ ~(level < 5)

\* C27: a win of level 4 is followed by no automatic advance: the next frame
\* leaves the game Won in level 4, where it stays until a button is clicked.
C27_LastWinStays ==
    [][(pc = "frame" /\ level = 4 /\ game_state = "Won")
       => /\ game_state' = "Won"
          /\ level' = 4
          /\ ~advanced']_vars

\* C28: a body the boundary stage has just clamped to an edge is left as it
\* is, position and velocity, by a second application of the stage.
C28_BoundaryIdempotent ==
    [][pc = "boundary"
       => \A k \in DOMAIN objects :
             objects'[k] # objects[k] => Boundary(objects'[k]) = objects'[k]]_vars

====
